---- MODULE Spec2Model ----
(***************************************************************************)
(* Model of src/downloader.py (UniversalVideoDownloader): the format       *)
(* resolution done by fetch_qualities.fetch_thread, the progress-line      *)
(* handling of download_video.download_thread, and the interplay of the    *)
(* Tk main loop with the fetch and download threads.                       *)
(***************************************************************************)
EXTENDS Integers, Sequences, FiniteSets, TLC

\* ------------------------------------------------------------------ bounds
MaxFormats == 3      \* longest descriptor list fed to the resolver
MaxLongFormats == 4  \* longest descriptor list of the long-list specification
MaxHeight == 2       \* heights are 0..MaxHeight, 0 = absent / None / 0
MaxBitrate == 2      \* tbr and abr are 0..MaxBitrate, 0 = absent / None / 0

\* ------------------------------------------------- Python dict primitives
\* A dict with string keys is a sequence of [key, val] entries in insertion
\* order (Python dicts keep insertion order; re-assigning a key keeps its slot).
EmptyDict == << >>

Keys(d) == [i \in 1..Len(d) |-> d[i].key]

Has(d, k) == \E i \in 1..Len(d) : d[i].key = k

Lookup(d, k) == d[CHOOSE i \in 1..Len(d) : d[i].key = k].val

\* d[k] = v with the dict replaced by a list of pairs (no key lookup).
PutAppend(d, k, v) == Append(d, [key |-> k, val |-> v])

\* d[k] = v
Put(d, k, v) ==
    IF Has(d, k)
    THEN [i \in 1..Len(d) |-> IF d[i].key = k THEN [key |-> k, val |-> v] ELSE d[i]]
    ELSE Append(d, [key |-> k, val |-> v])

\* rec.get(field, 0) or 0 on a record-shaped dict; EmptyDict has no field.
Get(rec, field) == IF field \in DOMAIN rec THEN rec[field] ELSE 0

\* quality_map.get(quality_key, {})
GetOrEmpty(d, k) == IF Has(d, k) THEN Lookup(d, k) ELSE EmptyDict

\* ------------------------------------------------------ stream descriptors
\* f"{height}p"
Label(height) == ToString(height) \o "p"

FormatId(i) == "f" \o ToString(i)

Heights == 0..MaxHeight
Bitrates == 0..MaxBitrate

\* The descriptors yt-dlp can report, before their format_id is given.  The
\* resolver never reads tbr of a descriptor without height, nor abr of a
\* descriptor with video, nor height/tbr of an audio-only one, so those
\* fields are left at 0 there.
Descriptors ==
    {[format_id |-> "", vcodec |-> "avc1", acodec |-> a, height |-> h, tbr |-> t, abr |-> 0] :
        a \in {"mp4a", "none"}, h \in Heights \ {0}, t \in Bitrates}
    \cup {[format_id |-> "", vcodec |-> "avc1", acodec |-> a, height |-> 0, tbr |-> 0, abr |-> 0] :
        a \in {"mp4a", "none"}}
    \cup {[format_id |-> "", vcodec |-> "none", acodec |-> "mp4a", height |-> 0, tbr |-> 0, abr |-> b] :
        b \in Bitrates}
    \cup {[format_id |-> "", vcodec |-> "none", acodec |-> "none", height |-> 0, tbr |-> 0, abr |-> 0]}

\* data['formats'] of a list of descriptors: the i-th one has format_id "f<i>".
Numbered(l) == [i \in 1..Len(l) |-> [l[i] EXCEPT !.format_id = FormatId(i)]]

IsCombined(fmt) == fmt.vcodec # "none" /\ fmt.acodec # "none"
IsVideoOnly(fmt) == fmt.vcodec # "none" /\ fmt.acodec = "none"
IsAudioOnly(fmt) == fmt.acodec # "none" /\ fmt.vcodec = "none"

\* --------------------------------------------------------- format resolver
\* The inner loop over formats that finds best_audio; 0 stands for None.
RECURSIVE AudioScan(_, _, _)
AudioScan(formats, i, best) ==
    IF i > Len(formats) THEN best
    ELSE LET audio_fmt == formats[i]
             current_abr == Get(audio_fmt, "abr")
             best_abr == IF best # 0 THEN Get(formats[best], "abr") ELSE 0
         IN IF IsAudioOnly(audio_fmt) /\ (best = 0 \/ current_abr > best_abr)
            THEN AudioScan(formats, i + 1, i)
            ELSE AudioScan(formats, i + 1, best)

\* best_audio taken to be the first audio-only descriptor, without comparing abr.
BestAudioFirst(formats) ==
    IF \E i \in 1..Len(formats) : IsAudioOnly(formats[i])
    THEN CHOOSE i \in 1..Len(formats) :
            IsAudioOnly(formats[i]) /\ \A j \in 1..(i - 1) : ~IsAudioOnly(formats[j])
    ELSE 0

\* Index of best_audio in formats, 0 when best_audio is None.
BestAudio(formats) == AudioScan(formats, 1, 0)

\* One iteration of "for fmt in formats".
ProcessFormat(quality_map, fmt, formats) ==
    IF IsCombined(fmt)
    THEN IF fmt.height # 0
         THEN LET quality_key == Label(fmt.height)
                  current_tbr == Get(fmt, "tbr")
                  existing_tbr == Get(GetOrEmpty(quality_map, quality_key), "tbr")
              IN IF ~Has(quality_map, quality_key) \/ current_tbr > existing_tbr
                 THEN Put(quality_map, quality_key, fmt)
                 ELSE quality_map
         ELSE quality_map
    ELSE IF IsVideoOnly(fmt)
    THEN IF fmt.height # 0
         THEN LET quality_key == Label(fmt.height)
                  best_audio == BestAudio(formats)
                  current_video_tbr == Get(fmt, "tbr")
                  existing_video_tbr ==
                      Get(GetOrEmpty(quality_map, quality_key), "video_tbr")
              IN IF best_audio # 0
                    /\ (~Has(quality_map, quality_key)
                        \/ current_video_tbr > existing_video_tbr)
                 THEN Put(quality_map, quality_key,
                          [video_format_id |-> fmt.format_id,
                           audio_format_id |-> formats[best_audio].format_id,
                           height |-> fmt.height,
                           video_tbr |-> current_video_tbr,
                           combined |-> TRUE])
                 ELSE quality_map
         ELSE quality_map
    ELSE quality_map

RECURSIVE QualityLoop(_, _, _)
QualityLoop(quality_map, formats, i) ==
    IF i > Len(formats) THEN quality_map
    ELSE QualityLoop(ProcessFormat(quality_map, formats[i], formats), formats, i + 1)

\* quality_map after the loop of lines 238-276.
QualityMap(formats) == QualityLoop(EmptyDict, formats, 1)

\* The sort key x[1].get('height', 0) or 0.
SortKey(entry) == Get(entry.val, "height")

\* Insert e into a list sorted by descending key, after the entries of equal
\* key (sorted() is stable, also with reverse=True).
RECURSIVE InsertDesc(_, _)
InsertDesc(sorted, e) ==
    IF sorted = << >> THEN <<e>>
    ELSE IF SortKey(e) > SortKey(Head(sorted))
         THEN <<e>> \o sorted
         ELSE <<Head(sorted)>> \o InsertDesc(Tail(sorted), e)

RECURSIVE SortFrom(_, _, _)
SortFrom(items, i, acc) ==
    IF i > Len(items) THEN acc
    ELSE SortFrom(items, i + 1, InsertDesc(acc, items[i]))

\* sorted() without reverse=True: the items stay ordered by ascending key.
RECURSIVE InsertAsc(_, _)
InsertAsc(sorted, e) ==
    IF sorted = << >> THEN <<e>>
    ELSE IF SortKey(e) < SortKey(Head(sorted))
         THEN <<e>> \o sorted
         ELSE <<Head(sorted)>> \o InsertAsc(Tail(sorted), e)

RECURSIVE SortAscFrom(_, _, _)
SortAscFrom(items, i, acc) ==
    IF i > Len(items) THEN acc
    ELSE SortAscFrom(items, i + 1, InsertAsc(acc, items[i]))

SortedAscending(quality_map) == SortAscFrom(quality_map, 1, << >>)

\* sorted(quality_map.items(), key=..., reverse=True), then the dict built of it.
SortedQualities(quality_map) == SortFrom(quality_map, 1, << >>)

\* {k: v for k, v in sorted_qualities}
RECURSIVE DictFrom(_, _, _)
DictFrom(items, i, acc) ==
    IF i > Len(items) THEN acc
    ELSE DictFrom(items, i + 1, Put(acc, items[i].key, items[i].val))

\* The value assigned to self.formats_data for a descriptor list.
Resolve(formats) == DictFrom(SortedQualities(QualityMap(formats)), 1, EmptyDict)

\* ------------------------------------------------------------------- state
VARIABLES
    url_var,          \* tk.StringVar behind the URL entry, a sequence of tokens
    quality_var,      \* tk.StringVar behind the quality combobox
    progress_var,     \* tk.DoubleVar behind the progress bar, <<mantissa, decimals>>
    status_var,       \* tk.StringVar behind the status label
    formats_data,     \* self.formats_data
    download_thread,  \* self.download_thread: 0 for None, else a thread slot
    combo_values,     \* quality_combo['values']
    btn_state,        \* state of download_btn
    dialogs,          \* the open messageboxes, the topmost last
    afterQ,           \* callbacks scheduled with root.after(0, ...), in order
    fetch,            \* the fetch threads
    dl                \* the download threads

vars == <<url_var, quality_var, progress_var, status_var, formats_data,
          download_thread, combo_values, btn_state, dialogs, afterQ, fetch, dl>>

MaxFetch == 2        \* fetch threads started in a run
MaxDownload == 2     \* download threads started in a run
MaxLines == 1        \* lines a download process prints
MaxPending == 0      \* a user event is taken while at most this many callbacks wait
TitleLimit == 50

FetchIds == 1..MaxFetch
DlIds == 1..MaxDownload

\* URLs the user can type: empty, not http(s), and a valid one.
Urls == {<< >>, <<"ftp://", "v">>, <<"https://", "a", " ">>}

\* str.strip()
RECURSIVE StripLeft(_)
StripLeft(s) == IF s # << >> /\ Head(s) = " " THEN StripLeft(Tail(s)) ELSE s

RECURSIVE StripRight(_)
StripRight(s) ==
    IF s # << >> /\ s[Len(s)] = " " THEN StripRight(SubSeq(s, 1, Len(s) - 1)) ELSE s

Strip(s) == StripRight(StripLeft(s))

\* re.match(r'^https?://', url)
ValidUrl(url) == url # << >> /\ url[1] \in {"http://", "https://"}

\* title[:50]
Truncate(title) == SubSeq(title, 1, IF Len(title) < TitleLimit THEN Len(title) ELSE TitleLimit)

\* A fetch thread not yet started, and one that has ended.
IdleFetch == [pc |-> "idle", url |-> << >>, title |-> << >>, formats |-> << >>]
DoneFetch == [pc |-> "done", url |-> << >>, title |-> << >>, formats |-> << >>]

FreeDl == [pc |-> "free", url |-> << >>, quality |-> "", format_selector |-> "",
           cmd |-> << >>, nread |-> 0, line |-> << >>, percent |-> <<0, 0>>,
           accepted |-> << >>]

\* The state __init__ and setup_ui leave behind.
Init ==
    /\ url_var = << >>
    /\ quality_var = ""
    /\ progress_var = <<0, 0>>
    /\ status_var = <<"Ready">>
    /\ formats_data = EmptyDict
    /\ download_thread = 0
    /\ combo_values = << >>
    /\ btn_state = "disabled"
    /\ dialogs = << >>
    /\ afterQ = << >>
    /\ fetch = [f \in FetchIds |-> IdleFetch]
    /\ dl = [t \in DlIds |-> FreeDl]

Callback(kind, arg) == [kind |-> kind, arg |-> arg]

\* An open messagebox; then is the status text its caller sets once the box is
\* closed (<< >> if the caller does nothing more).
MessageBox(text, then) == [text |-> text, then |-> then]

AlreadyInProgress == "Download already in progress!"

\* A messagebox is modal: the user reaches the window only when none is open.
\* The model takes a user event only while at most MaxPending callbacks wait.
UserCanAct == dialogs = << >> /\ Len(afterQ) <= MaxPending

\* --------------------------------------------------------- fetch_qualities
\* What "yt-dlp -J url" can print for a URL: the title and the descriptor list.
SampleData ==
    {[title |-> <<"Unknown">>, formats |-> << >>],
     [title |-> <<"t">>,
      formats |-> <<[format_id |-> "f1", vcodec |-> "avc1", acodec |-> "mp4a",
                     height |-> 1, tbr |-> 1, abr |-> 0],
                    [format_id |-> "f2", vcodec |-> "avc1", acodec |-> "mp4a",
                     height |-> 2, tbr |-> 1, abr |-> 0]>>],
     [title |-> <<"t">>,
      formats |-> <<[format_id |-> "f1", vcodec |-> "avc1", acodec |-> "none",
                     height |-> 1, tbr |-> 2, abr |-> 0],
                    [format_id |-> "f2", vcodec |-> "none", acodec |-> "mp4a",
                     height |-> 0, tbr |-> 0, abr |-> 1]>>]}

\* The ways the try block of fetch_thread ends at subprocess.run / json.loads.
FetchErrors ==
    {[text |-> "Error: Failed to fetch video information",
      status |-> <<"Error fetching qualities">>],
     [text |-> "Error: stderr", status |-> <<"Error fetching qualities">>],
     [text |-> "Failed to parse video information", status |-> <<"Error parsing data">>],
     [text |-> "Unexpected error", status |-> <<"Error occurred">>]}

LowestIdleFetch == CHOOSE f \in FetchIds :
    fetch[f].pc = "idle" /\ \A g \in FetchIds : fetch[g].pc = "idle" => f <= g

\* The handler of the fetch button and of <Return> (lines 211-221, 299).
FetchQualities ==
    /\ UserCanAct
    /\ LET url == Strip(url_var) IN
       IF url = << >>
       THEN /\ dialogs' = Append(dialogs, MessageBox("Please enter a video URL!", << >>))
            /\ UNCHANGED fetch
       ELSE IF ~ValidUrl(url)
       THEN /\ dialogs' = Append(dialogs, MessageBox("Please enter a valid URL", << >>))
            /\ UNCHANGED fetch
       ELSE /\ \E f \in FetchIds : fetch[f].pc = "idle"
            /\ fetch' = [fetch EXCEPT ![LowestIdleFetch] =
                            [IdleFetch EXCEPT !.pc = "start", !.url = url]]
            /\ UNCHANGED dialogs
    /\ UNCHANGED <<url_var, quality_var, progress_var, status_var, formats_data,
                   download_thread, combo_values, btn_state, afterQ, dl>>

\* fetch_thread, lines 225-227: the thread itself sets the status text and
\* the progress value.
FetchStart(f) ==
    /\ fetch[f].pc = "start"
    /\ status_var' = <<"Fetching available qualities...">>
    /\ progress_var' = <<0, 0>>
    /\ fetch' = [fetch EXCEPT ![f].pc = "run"]
    /\ UNCHANGED <<url_var, quality_var, formats_data, download_thread,
                   combo_values, btn_state, dialogs, afterQ, dl>>

\* fetch_thread, lines 230-282: yt-dlp printed data, the resolver ran on its
\* descriptor list and the thread itself replaced self.formats_data.
FetchResolve(f, data) ==
    /\ fetch[f].pc = "run"
    /\ formats_data' = Resolve(data.formats)
    /\ fetch' = [fetch EXCEPT ![f].pc = "schedule", ![f].title = data.title,
                               ![f].formats = data.formats]
    /\ UNCHANGED <<url_var, quality_var, progress_var, status_var, download_thread,
                   combo_values, btn_state, dialogs, afterQ, dl>>

FetchRun(f) == \E data \in SampleData : FetchResolve(f, data)

\* The same with the data yt-dlp is about to print already in fetch[f].
FetchRunGiven(f) ==
    FetchResolve(f, [title |-> fetch[f].title, formats |-> fetch[f].formats])

\* fetch_thread, lines 287-296: one of the except clauses.
FetchFail(f) ==
    /\ fetch[f].pc = "run"
    /\ \E e \in FetchErrors :
        afterQ' = afterQ \o <<Callback("messagebox", <<e.text>>),
                              Callback("status", <<e.status>>)>>
    /\ fetch' = [fetch EXCEPT ![f] = DoneFetch]
    /\ UNCHANGED <<url_var, quality_var, progress_var, status_var, formats_data,
                   download_thread, combo_values, btn_state, dialogs, dl>>

\* fetch_thread, line 285.
FetchSchedule(f) ==
    /\ fetch[f].pc = "schedule"
    /\ afterQ' = Append(afterQ, Callback("update_quality_combo",
                                         <<Keys(formats_data), fetch[f].title>>))
    /\ fetch' = [fetch EXCEPT ![f] = DoneFetch]
    /\ UNCHANGED <<url_var, quality_var, progress_var, status_var, formats_data,
                   download_thread, combo_values, btn_state, dialogs, dl>>

\* ------------------------------------------------------------ the main loop
RECURSIVE Pow10(_)
Pow10(n) == IF n = 0 THEN 1 ELSE 10 * Pow10(n - 1)

\* f"{percent:.1f}" of the float <<mantissa, decimals>>, in tenths.  A decimal
\* tie (which the digits of Digits never produce) is rounded to even.
Format1(percent) ==
    LET m == percent[1]
        d == percent[2]
    IN IF d = 0 THEN 10 * m
       ELSE LET unit == Pow10(d - 1)
                q == m \div unit
                r == m % unit
            IN IF 2 * r > unit \/ (2 * r = unit /\ q % 2 = 1) THEN q + 1 ELSE q

\* update_quality_combo (lines 301-310) and the lambdas given to root.after,
\* run by the Tk main loop in the order they were scheduled.  A messagebox
\* keeps its caller waiting while the loop goes on serving callbacks.
RunCallback ==
    /\ afterQ # << >>
    /\ LET cb == Head(afterQ)
           qualities == cb.arg[1]
       IN /\ btn_state' =
                 IF cb.kind = "btn" THEN cb.arg[1]
                 ELSE IF cb.kind = "update_quality_combo" /\ qualities # << >> THEN "normal"
                 ELSE btn_state
          /\ status_var' =
                 IF cb.kind = "status" THEN cb.arg[1]
                 ELSE IF cb.kind = "status_percent"
                 THEN <<"Downloading", Format1(dl[cb.arg[1]].percent)>>
                 ELSE IF cb.kind = "update_quality_combo" /\ qualities # << >>
                 THEN <<"Found", Len(qualities), Truncate(cb.arg[2])>>
                 ELSE status_var
          /\ progress_var' = IF cb.kind = "progress" THEN cb.arg[1] ELSE progress_var
          /\ dialogs' =
                 IF cb.kind = "messagebox" THEN Append(dialogs, MessageBox(cb.arg[1], << >>))
                 ELSE IF cb.kind = "update_quality_combo" /\ qualities = << >>
                 THEN Append(dialogs, MessageBox("No compatible video qualities found!",
                                                 <<<<"No qualities found">>>>))
                 ELSE dialogs
          /\ combo_values' =
                 IF cb.kind = "update_quality_combo" /\ qualities # << >>
                 THEN qualities ELSE combo_values
          /\ quality_var' =
                 IF cb.kind = "update_quality_combo" /\ qualities # << >>
                 THEN qualities[1] ELSE quality_var
    /\ afterQ' = Tail(afterQ)
    /\ UNCHANGED <<url_var, formats_data, download_thread, fetch, dl>>

\* The user closes the topmost messagebox and its caller goes on (line 310
\* for the box of line 309).
CloseDialog ==
    /\ dialogs # << >>
    /\ LET box == dialogs[Len(dialogs)] IN
       status_var' = IF box.then # << >> THEN box.then[1] ELSE status_var
    /\ dialogs' = SubSeq(dialogs, 1, Len(dialogs) - 1)
    /\ UNCHANGED <<url_var, quality_var, progress_var, formats_data, download_thread,
                   combo_values, btn_state, afterQ, fetch, dl>>

\* ----------------------------------------------- the resolver on every list
\* A fetch thread about to run yt-dlp, in the window as it was built; yt-dlp
\* will print any descriptor list up to n long.
InitResolving(n) ==
    /\ url_var = <<"https://", "a", " ">>
    /\ quality_var = ""
    /\ progress_var = <<0, 0>>
    /\ status_var = <<"Fetching available qualities...">>
    /\ formats_data = EmptyDict
    /\ download_thread = 0
    /\ combo_values = << >>
    /\ btn_state = "disabled"
    /\ dialogs = << >>
    /\ afterQ = << >>
    /\ \E len \in 0..n : \E l \in [1..len -> Descriptors] :
         fetch = [f \in FetchIds |->
                    IF f = 1 THEN [pc |-> "run", url |-> <<"https://", "a">>,
                                   title |-> <<"t">>, formats |-> Numbered(l)]
                    ELSE IdleFetch]
    /\ dl = [t \in DlIds |-> FreeDl]

InitResolve == InitResolving(MaxFormats)

InitResolveLong == InitResolving(MaxLongFormats)

NextResolve ==
    \/ \E f \in FetchIds : FetchRunGiven(f)
    \/ \E f \in FetchIds : FetchSchedule(f)
    \/ RunCallback

SpecResolve == InitResolve /\ [][NextResolve]_vars

SpecResolveLong == InitResolveLong /\ [][NextResolve]_vars

\* ------------------------------------------------- claims on the resolver
\* format_info.get('combined')
IsPaired(format_info) == "combined" \in DOMAIN format_info /\ format_info.combined

Max(S) == CHOOSE x \in S : \A y \in S : y <= x

Distinct(seq) == \A i, j \in 1..Len(seq) : i # j => seq[i] # seq[j]

\* The fetch threads that have resolved their list and not yet scheduled the menu.
Resolved == {f \in FetchIds : fetch[f].pc = "schedule"}

CombinedAt(formats, h) == {i \in 1..Len(formats) : IsCombined(formats[i]) /\ formats[i].height = h}
VideoOnlyAt(formats, h) == {i \in 1..Len(formats) : IsVideoOnly(formats[i]) /\ formats[i].height = h}
AudioOnly(formats) == {i \in 1..Len(formats) : IsAudioOnly(formats[i])}

PendingMenus == {i \in 1..Len(afterQ) : afterQ[i].kind = "update_quality_combo"}

\* C1: when a height has a combined descriptor and a video-only descriptor that
\* can be paired with an audio-only one, the option resolved for the height is
\* the Single one if the best combined bitrate exceeds the best video-only
\* bitrate and the Paired one if it is lower, in every order of the list (as
\* with combined 5000 against video-only 8000).  Equal bitrates, on which the
\* claim also gives the Paired option, are left out: this is the claim on
\* unequal bitrates only.
C1_CombinedWinsOnlyIfHigher ==
    \A f \in Resolved : \A h \in Heights \ {0} :
        LET formats == fetch[f].formats
            combined_tbr == Max({formats[i].tbr : i \in CombinedAt(formats, h)})
            video_tbr == Max({formats[i].tbr : i \in VideoOnlyAt(formats, h)})
        IN (/\ CombinedAt(formats, h) # {} /\ VideoOnlyAt(formats, h) # {}
            /\ AudioOnly(formats) # {} /\ combined_tbr # video_tbr)
           => /\ Has(formats_data, Label(h))
              /\ ~IsPaired(Lookup(formats_data, Label(h))) <=> combined_tbr > video_tbr

\* C3: the resolved menu never holds two options with the same label, nor two
\* options of the same height: in formats_data, in the list handed to
\* update_quality_combo, and in the combobox.
C3_UniqueLabels ==
    /\ Distinct(Keys(formats_data))
    /\ Distinct([i \in 1..Len(formats_data) |-> Get(formats_data[i].val, "height")])
    /\ \A i \in PendingMenus : Distinct(afterQ[i].arg[1])
    /\ Distinct(combo_values)

\* C3 witness: two descriptors with video share a height, and two heights made
\* it into the menu.
C3_Witness ==
    \E f \in Resolved :
        LET formats == fetch[f].formats IN
        /\ \E i, j \in 1..Len(formats) :
              i < j /\ IsCombined(formats[i]) /\ IsCombined(formats[j])
              /\ formats[i].height = formats[j].height /\ formats[i].height # 0
        /\ Len(formats_data) = 2

\* C4: the resolved options are ordered by strictly descending height, each
\* label is that of its option's height, the list handed to
\* update_quality_combo is in that order, and the entry selected by default is
\* the first, highest one.
C4_DescendingHeight ==
    /\ \A i \in 1..Len(formats_data) :
          /\ formats_data[i].key = Label(Get(formats_data[i].val, "height"))
          /\ i < Len(formats_data) =>
                Get(formats_data[i].val, "height") > Get(formats_data[i + 1].val, "height")
    /\ \A i \in PendingMenus : afterQ[i].arg[1] = Keys(formats_data)
    /\ combo_values # << >> =>
          /\ combo_values = Keys(formats_data)
          /\ quality_var = formats_data[1].key

\* C4 witness: the list named the lower height first and the menu shows both.
C4_Witness ==
    /\ Len(combo_values) = 2
    /\ quality_var = Label(2)
    /\ Get(formats_data[2].val, "format_id") = FormatId(1)

\* C5: the option resolved for a height is the best of its class: a Single one
\* has the highest tbr among the combined descriptors of the height, a Paired
\* one the highest tbr among its video-only descriptors.
C5_BestOfClass ==
    \A f \in Resolved : \A i \in 1..Len(formats_data) :
        LET formats == fetch[f].formats
            v == formats_data[i].val
        IN IF IsPaired(v)
           THEN v.video_tbr = Max({formats[j].tbr : j \in VideoOnlyAt(formats, v.height)})
           ELSE v.tbr = Max({formats[j].tbr : j \in CombinedAt(formats, v.height)})

\* C6: every Paired option names an audio-only descriptor of maximal abr, the
\* same one for every height, and without an audio-only descriptor there is no
\* Paired option, so no video-only descriptor yields an option.
C6_BestAudio ==
    \A f \in Resolved :
        LET formats == fetch[f].formats
            paired == {i \in 1..Len(formats_data) : IsPaired(formats_data[i].val)}
        IN /\ \A i \in paired :
                \E a \in AudioOnly(formats) :
                    /\ formats[a].format_id = formats_data[i].val.audio_format_id
                    /\ \A b \in AudioOnly(formats) : formats[b].abr <= formats[a].abr
           /\ \A i, j \in paired :
                formats_data[i].val.audio_format_id = formats_data[j].val.audio_format_id
           /\ AudioOnly(formats) = {} => paired = {}
           /\ \A i \in paired :
                formats_data[i].val.video_format_id \in
                    {formats[j].format_id : j \in VideoOnlyAt(formats, formats_data[i].val.height)}

\* C6 witness: a Paired option resolved from a list whose better audio-only
\* descriptor comes after a worse one.
C6_Witness ==
    \E f \in Resolved :
        LET formats == fetch[f].formats IN
        /\ \E i \in 1..Len(formats_data) : IsPaired(formats_data[i].val)
        /\ \E a, b \in AudioOnly(formats) : a < b /\ formats[a].abr < formats[b].abr

\* ------------------------------------------------------ progress extraction
MaxLineLen == 5      \* tokens of an output line

\* An output line is a sequence of tokens: the two literal markers the code
\* looks for, single characters, and "x" for any other text.
DownloadMarker == "[download]"
MergeMarker == "Merging formats"
Digits == {"0", "7"}
Tokens == {DownloadMarker, MergeMarker, "%", ".", " ", "x"} \cup Digits

Lines == UNION {[1..n -> Tokens] : n \in 0..MaxLineLen}

\* marker in line
Contains(line, token) == \E i \in 1..Len(line) : line[i] = token

DigitValue(c) == IF c = "0" THEN 0 ELSE 7

\* First index from i on that holds no digit (Len(line) + 1 if there is none).
RECURSIVE DigitsEnd(_, _)
DigitsEnd(line, i) ==
    IF i <= Len(line) /\ line[i] \in Digits THEN DigitsEnd(line, i + 1) ELSE i

\* Where (\d+\.?\d*)% matched from index i puts its '%', 0 if it does not match.
PercentAt(line, i) ==
    IF i > Len(line) \/ line[i] \notin Digits THEN 0
    ELSE LET j == DigitsEnd(line, i) IN
         IF j <= Len(line) /\ line[j] = "%" THEN j
         ELSE IF j <= Len(line) /\ line[j] = "."
         THEN LET k == DigitsEnd(line, j + 1) IN
              IF k <= Len(line) /\ line[k] = "%" THEN k ELSE 0
         ELSE 0

\* re.search(r'(\d+\.?\d*)%', line): group(1) of the leftmost match, << >> for None.
PercentMatch(line) ==
    IF \E i \in 1..Len(line) : PercentAt(line, i) # 0
    THEN LET i == CHOOSE i \in 1..Len(line) :
                     PercentAt(line, i) # 0 /\ \A j \in 1..(i - 1) : PercentAt(line, j) = 0
         IN SubSeq(line, i, PercentAt(line, i) - 1)
    ELSE << >>

RECURSIVE DigitsToInt(_, _)
DigitsToInt(s, acc) ==
    IF s = << >> THEN acc ELSE DigitsToInt(Tail(s), 10 * acc + DigitValue(Head(s)))

\* The float m / 10^d with the trailing zeros of its fraction dropped.
RECURSIVE Normalize(_, _)
Normalize(m, d) == IF d > 0 /\ m % 10 = 0 THEN Normalize(m \div 10, d - 1) ELSE <<m, d>>

\* float(text) for text of the form digits, digits. or digits.digits
Float(text) ==
    LET whole == SubSeq(text, 1, DigitsEnd(text, 1) - 1)
        fraction == SubSeq(text, Len(whole) + 2, Len(text))
    IN Normalize(DigitsToInt(whole \o fraction, 0), Len(fraction))

\* The elif of line 366 taken as an if of its own.
LineCallbacksNoElif(line, t) ==
    (IF Contains(line, DownloadMarker) /\ Contains(line, "%") /\ PercentMatch(line) # << >>
     THEN <<Callback("progress", <<Float(PercentMatch(line))>>),
            Callback("status_percent", <<t>>)>>
     ELSE << >>)
    \o (IF Contains(line, MergeMarker)
        THEN <<Callback("status", <<<<"Merging video and audio...">>>>)>>
        ELSE << >>)

\* The body of "for line in process.stdout" (lines 355-367) in download thread
\* t: the callbacks it schedules for one stripped line.
LineCallbacks(line, t) ==
    IF Contains(line, DownloadMarker) /\ Contains(line, "%")
    THEN IF PercentMatch(line) # << >>
         THEN <<Callback("progress", <<Float(PercentMatch(line))>>),
                Callback("status_percent", <<t>>)>>
         ELSE << >>
    ELSE IF Contains(line, MergeMarker)
    THEN <<Callback("status", <<<<"Merging video and audio...">>>>)>>
    ELSE << >>

\* percent after the line: assigned only when the pattern matched.
LinePercent(line, percent) ==
    IF Contains(line, DownloadMarker) /\ Contains(line, "%") /\ PercentMatch(line) # << >>
    THEN Float(PercentMatch(line))
    ELSE percent

\* ---------------------------------------------------------- download_video
\* Lines the download process prints in the threaded model.
SampleLines == {<<DownloadMarker, " ", "7", "%">>, <<MergeMarker>>}

OutputPath == "Videos/%(title)s.%(ext)s"

\* A thread that never reports being alive.
NeverAlive(t) == FALSE

\* Thread.is_alive(): true from start() until the thread function returns.
IsAlive(t) == dl[t].pc \notin {"free", "dead"}

Running == {t \in DlIds : dl[t].pc \notin {"free", "dead"}}

NotStarted == {t \in DlIds : dl[t].pc = "free"}

\* Lines 335-340: the -f argument for an entry of formats_data.
FormatSelector(format_info) ==
    IF IsPaired(format_info)
    THEN format_info.video_format_id \o "+" \o format_info.audio_format_id
    ELSE format_info.format_id

\* What the menu binds to the selected label as a request is accepted: the
\* label and, if it is a key of formats_data, the selector of its entry.  The
\* code keeps no such record; the model does, to compare it with what the
\* thread reads later.
AcceptedSelection ==
    IF Has(formats_data, quality_var)
    THEN <<quality_var, FormatSelector(Lookup(formats_data, quality_var))>>
    ELSE <<quality_var>>

\* The handler of the download button (lines 312-320, 386-387); Tk runs it
\* only while the button is enabled.
DownloadVideo ==
    /\ btn_state = "normal"
    /\ UserCanAct
    /\ IF quality_var = "" \/ url_var = << >>
       THEN /\ dialogs' = Append(dialogs, MessageBox("Please select a quality and enter URL!", << >>))
            /\ UNCHANGED <<dl, download_thread>>
       ELSE IF download_thread # 0 /\ IsAlive(download_thread)
       THEN /\ dialogs' = Append(dialogs, MessageBox(AlreadyInProgress, << >>))
            /\ UNCHANGED <<dl, download_thread>>
       ELSE /\ NotStarted # {}
            /\ LET t == CHOOSE t \in NotStarted : \A u \in NotStarted : t <= u IN
               /\ dl' = [dl EXCEPT ![t] =
                           [FreeDl EXCEPT !.pc = "begin",
                                          !.accepted = AcceptedSelection]]
               /\ download_thread' = t
            /\ UNCHANGED dialogs
    /\ UNCHANGED <<url_var, quality_var, progress_var, status_var, formats_data,
                   combo_values, btn_state, afterQ, fetch>>

\* download_thread, lines 324-326.
DlBegin(t) ==
    /\ dl[t].pc = "begin"
    /\ afterQ' = afterQ \o <<Callback("btn", <<"disabled">>),
                             Callback("status", <<<<"Starting download...">>>>),
                             Callback("progress", <<<<0, 0>>>>)>>
    /\ dl' = [dl EXCEPT ![t].pc = "select"]
    /\ UNCHANGED <<url_var, quality_var, progress_var, status_var, formats_data,
                   download_thread, combo_values, btn_state, dialogs, fetch>>

\* download_thread, lines 328-352: the thread reads the URL, the selected label
\* and self.formats_data now, and starts the process; a label that is no key
\* raises KeyError.
DlSelect(t) ==
    /\ dl[t].pc = "select"
    /\ dl' = [dl EXCEPT ![t] =
                IF Has(formats_data, quality_var)
                THEN LET format_selector == FormatSelector(Lookup(formats_data, quality_var))
                     IN [@ EXCEPT !.pc = "loop",
                                  !.url = Strip(url_var),
                                  !.quality = quality_var,
                                  !.format_selector = format_selector,
                                  !.cmd = <<"yt-dlp", "-f", format_selector,
                                            "--merge-output-format", "mp4",
                                            "-o", OutputPath, Strip(url_var)>>]
                ELSE [@ EXCEPT !.pc = "except",
                               !.url = Strip(url_var),
                               !.quality = quality_var]]
    /\ UNCHANGED <<url_var, quality_var, progress_var, status_var, formats_data,
                   download_thread, combo_values, btn_state, dialogs, afterQ, fetch>>

\* The same with line 351 raising (yt-dlp cannot be started).
DlPopenFail(t) ==
    /\ dl[t].pc = "select"
    /\ Has(formats_data, quality_var)
    /\ dl' = [dl EXCEPT ![t] =
                [@ EXCEPT !.pc = "except",
                          !.url = Strip(url_var),
                          !.quality = quality_var,
                          !.format_selector =
                              FormatSelector(Lookup(formats_data, quality_var))]]
    /\ UNCHANGED <<url_var, quality_var, progress_var, status_var, formats_data,
                   download_thread, combo_values, btn_state, dialogs, afterQ, fetch>>

\* download_thread, lines 354-367: the process prints a line, one of lines.
DlReadLineOf(t, lines) ==
    /\ dl[t].pc = "loop"
    /\ dl[t].nread < MaxLines
    /\ \E printed \in lines :
         LET line == Strip(printed) IN
         /\ afterQ' = afterQ \o LineCallbacks(line, t)
         /\ dl' = [dl EXCEPT ![t] =
                     [@ EXCEPT !.line = line,
                               !.percent = LinePercent(line, dl[t].percent),
                               !.nread = dl[t].nread + 1]]
    /\ UNCHANGED <<url_var, quality_var, progress_var, status_var, formats_data,
                   download_thread, combo_values, btn_state, dialogs, fetch>>

DlReadLine(t) == DlReadLineOf(t, SampleLines)

\* The callbacks of lines 371-378 for an exit status.
ExitCallbacks(returncode) ==
    IF returncode = 0
    THEN <<Callback("progress", <<<<100, 0>>>>),
           Callback("status", <<<<"Download completed successfully!">>>>),
           Callback("messagebox", <<"Video downloaded successfully!">>)>>
    ELSE <<Callback("status", <<<<"Download failed">>>>),
           Callback("messagebox", <<"Download failed. Please try again.">>)>>

\* The finally clause without its callback.
NoFinalCallbacks == << >>

\* Line 384.
FinalCallbacks == <<Callback("btn", <<"normal">>)>>

\* A thread that has ended; of its locals only percent lives on, in the
\* closures of line 363.
DeadDl(t) == [FreeDl EXCEPT !.pc = "dead", !.percent = dl[t].percent]

\* download_thread, lines 369-378 and 383-384: the output has ended and the
\* process has exited, with status 0 or not; the thread ends.
DlExit(t) ==
    /\ dl[t].pc = "loop"
    /\ \E returncode \in {0, 1} :
         afterQ' = afterQ \o ExitCallbacks(returncode) \o FinalCallbacks
    /\ dl' = [dl EXCEPT ![t] = DeadDl(t)]
    /\ UNCHANGED <<url_var, quality_var, progress_var, status_var, formats_data,
                   download_thread, combo_values, btn_state, dialogs, fetch>>

\* download_thread, lines 380-384: an exception ends the thread.
DlExcept(t) ==
    /\ dl[t].pc = "except"
    /\ afterQ' = afterQ \o <<Callback("messagebox", <<"Download error">>),
                             Callback("status", <<<<"Download error">>>>)>>
                        \o FinalCallbacks
    /\ dl' = [dl EXCEPT ![t] = DeadDl(t)]
    /\ UNCHANGED <<url_var, quality_var, progress_var, status_var, formats_data,
                   download_thread, combo_values, btn_state, dialogs, fetch>>

\* ---------------------------------------------------------------- the user
TypeUrl(u) ==
    /\ UserCanAct
    /\ url_var # u
    /\ url_var' = u
    /\ UNCHANGED <<quality_var, progress_var, status_var, formats_data, download_thread,
                   combo_values, btn_state, dialogs, afterQ, fetch, dl>>

\* The combobox is read-only: the user picks one of its values.
SelectQuality(i) ==
    /\ UserCanAct
    /\ quality_var # combo_values[i]
    /\ quality_var' = combo_values[i]
    /\ UNCHANGED <<url_var, progress_var, status_var, formats_data, download_thread,
                   combo_values, btn_state, dialogs, afterQ, fetch, dl>>

Next ==
    \/ \E u \in Urls : TypeUrl(u)
    \/ \E i \in 1..Len(combo_values) : SelectQuality(i)
    \/ FetchQualities
    \/ DownloadVideo
    \/ RunCallback
    \/ CloseDialog
    \/ \E f \in FetchIds :
         FetchStart(f) \/ FetchRun(f) \/ FetchFail(f) \/ FetchSchedule(f)
    \/ \E t \in DlIds :
         DlBegin(t) \/ DlSelect(t) \/ DlPopenFail(t) \/ DlReadLine(t)
         \/ DlExit(t) \/ DlExcept(t)

Spec == Init /\ [][Next]_vars

\* The steps of one thread.
FetchThread(f) == FetchStart(f) \/ FetchRun(f) \/ FetchFail(f) \/ FetchSchedule(f)

DlThread(t) ==
    DlBegin(t) \/ DlSelect(t) \/ DlPopenFail(t) \/ DlReadLine(t) \/ DlExit(t) \/ DlExcept(t)

\* ------------------------------------------------ retrying after a failure
\* The user has typed a URL and leaves it alone.
InitRetry ==
    /\ url_var = <<"https://", "a", " ">>
    /\ quality_var = ""
    /\ progress_var = <<0, 0>>
    /\ status_var = <<"Ready">>
    /\ formats_data = EmptyDict
    /\ download_thread = 0
    /\ combo_values = << >>
    /\ btn_state = "disabled"
    /\ dialogs = << >>
    /\ afterQ = << >>
    /\ fetch = [f \in FetchIds |-> IdleFetch]
    /\ dl = [t \in DlIds |-> FreeDl]

NextRetry ==
    \/ \E i \in 1..Len(combo_values) : SelectQuality(i)
    \/ FetchQualities
    \/ DownloadVideo
    \/ RunCallback
    \/ CloseDialog
    \/ \E f \in FetchIds :
         FetchStart(f) \/ FetchRun(f) \/ FetchFail(f) \/ FetchSchedule(f)
    \/ \E t \in DlIds :
         DlBegin(t) \/ DlSelect(t) \/ DlPopenFail(t) \/ DlReadLine(t)
         \/ DlExit(t) \/ DlExcept(t)

\* The main loop keeps serving callbacks and every started thread keeps
\* running; the user owes nothing.
SpecRetry ==
    /\ InitRetry /\ [][NextRetry]_vars
    /\ WF_vars(RunCallback)
    /\ \A f \in FetchIds : WF_vars(FetchThread(f))
    /\ \A t \in DlIds : WF_vars(DlThread(t))

\* ------------------------------------------- the extractor on every line
\* A download whose process is about to print its last line, any line: the menu
\* holds the one option of a combined descriptor, and the display shows either
\* the start of the download or an earlier progress line.
InitExtract ==
    LET data == [title |-> <<"t">>,
                 formats |-> Numbered(<<[format_id |-> "", vcodec |-> "avc1",
                                         acodec |-> "mp4a", height |-> 1, tbr |-> 1,
                                         abr |-> 0]>>)]
        url == <<"https://", "a">>
    IN
    /\ url_var = url
    /\ quality_var = Label(1)
    /\ formats_data = Resolve(data.formats)
    /\ download_thread = 1
    /\ combo_values = <<Label(1)>>
    /\ btn_state = "disabled"
    /\ dialogs = << >>
    /\ afterQ = << >>
    /\ fetch = [f \in FetchIds |-> IF f = 1 THEN DoneFetch ELSE IdleFetch]
    /\ \E earlier \in {<<0, 0>>, <<7, 1>>} :
        /\ progress_var = earlier
        /\ status_var = IF earlier = <<0, 0>> THEN <<"Starting download...">>
                        ELSE <<"Downloading", Format1(earlier)>>
        /\ dl = [t \in DlIds |->
                   IF t = 1
                   THEN [FreeDl EXCEPT !.pc = "loop", !.url = url, !.quality = Label(1),
                                       !.format_selector = FormatId(1),
                                       !.cmd = <<"yt-dlp", "-f", FormatId(1),
                                                 "--merge-output-format", "mp4",
                                                 "-o", OutputPath, url>>,
                                       !.nread = MaxLines - 1,
                                       !.percent = earlier,
                                       !.accepted = <<Label(1), FormatId(1)>>]
                   ELSE FreeDl]

NextExtract ==
    \/ \E t \in DlIds : DlReadLineOf(t, Lines)
    \/ RunCallback

SpecExtract == InitExtract /\ [][NextExtract]_vars

\* ------------------------------------------------ claims on the extractor
\* A numeric value: one or more digits, then optionally a point and digits.
IsNumeral(s) ==
    /\ s # << >>
    /\ s[1] \in Digits
    /\ \A k \in 1..Len(s) : s[k] \in Digits \cup {"."}
    /\ Cardinality({k \in 1..Len(s) : s[k] = "."}) <= 1

\* The places <<i, j>> of a line where a numeric value i..j-1 is followed by '%'.
NumeralsBeforePercent(line) ==
    {ij \in (1..Len(line)) \X (1..Len(line)) :
        ij[1] < ij[2] /\ line[ij[2]] = "%" /\ IsNumeral(SubSeq(line, ij[1], ij[2] - 1))}

FirstNumeral(line) ==
    LET ij == CHOOSE ij \in NumeralsBeforePercent(line) :
                  \A kl \in NumeralsBeforePercent(line) : ij[1] <= kl[1]
    IN SubSeq(line, ij[1], ij[2] - 1)

RECURSIVE DecimalSum(_)
DecimalSum(digits) ==
    IF digits = << >> THEN 0
    ELSE DigitValue(digits[Len(digits)]) + 10 * DecimalSum(SubSeq(digits, 1, Len(digits) - 1))

\* The float <<m, d>> is the value of the numeral.
IsValueOf(float, numeral) ==
    LET digits == SelectSeq(numeral, LAMBDA c : c # ".")
        point == IF \E k \in 1..Len(numeral) : numeral[k] = "."
                 THEN CHOOSE k \in 1..Len(numeral) : numeral[k] = "."
                 ELSE Len(numeral)
        decimals == Len(numeral) - point
    IN float[1] * Pow10(decimals) = DecimalSum(digits) * Pow10(float[2])

\* A step in which download thread t takes a line from its process.
ReadStep(t) == dl[t].pc = "loop" /\ dl'[t].pc = "loop" /\ dl'[t].nread = dl[t].nread + 1

\* What a read line makes of the display: the callbacks it schedules, and the
\* thread's percent; merging tells when a line without a percentage reports
\* the merge phase.
Reports(t, merging) ==
    LET line == dl'[t].line IN
    /\ UNCHANGED <<progress_var, status_var>>
    /\ IF Contains(line, DownloadMarker) /\ NumeralsBeforePercent(line) # {}
       THEN /\ Len(afterQ') = Len(afterQ) + 2
            /\ SubSeq(afterQ', 1, Len(afterQ)) = afterQ
            /\ afterQ'[Len(afterQ) + 1].kind = "progress"
            /\ IsValueOf(afterQ'[Len(afterQ) + 1].arg[1], FirstNumeral(line))
            /\ afterQ'[Len(afterQ) + 2] = Callback("status_percent", <<t>>)
            /\ IsValueOf(dl'[t].percent, FirstNumeral(line))
       ELSE IF merging
       THEN /\ afterQ' = Append(afterQ, Callback("status", <<<<"Merging video and audio...">>>>))
            /\ dl'[t].percent = dl[t].percent
       ELSE /\ afterQ' = afterQ
            /\ dl'[t].percent = dl[t].percent

\* All that changes the displayed percent and status is a scheduled callback,
\* and once the last line is handled the display shows what it reported.
DisplayFollows ==
    /\ [][afterQ = << >> => UNCHANGED <<progress_var, status_var>>]_vars
    /\ [](\A t \in DlIds :
            (dl[t].pc = "loop" /\ dl[t].nread = MaxLines /\ afterQ = << >>
             /\ Contains(dl[t].line, DownloadMarker)
             /\ NumeralsBeforePercent(dl[t].line) # {})
            => /\ IsValueOf(progress_var, FirstNumeral(dl[t].line))
               /\ status_var = <<"Downloading", Format1(progress_var)>>)

\* C7 as claimed: a line with the download marker and a numeric value before
\* '%' reports that value (the first such) as the percent with phase
\* Downloading; else a line with the merge marker reports phase Merging and no
\* percent; else nothing is reported and percent and status stay as they were.
C7_AsClaimed ==
    /\ [][\A t \in DlIds :
            ReadStep(t) => Reports(t, Contains(dl'[t].line, MergeMarker))]_vars
    /\ DisplayFollows

\* C7 amended: as claimed, except that a line holding both the download marker
\* and a '%' never reports the merge phase: without a numeric value before a
\* '%' it reports nothing, merge marker or not.
C7_Extraction ==
    /\ [][\A t \in DlIds :
            ReadStep(t) =>
                Reports(t, /\ Contains(dl'[t].line, MergeMarker)
                           /\ ~(/\ Contains(dl'[t].line, DownloadMarker)
                                /\ Contains(dl'[t].line, "%")))]_vars
    /\ DisplayFollows

\* C7 witness: a line with both markers and a '%' but no numeric value before
\* it has been read, and nothing was scheduled.
C7_Witness ==
    \E t \in DlIds :
        /\ dl[t].pc = "loop" /\ dl[t].nread = MaxLines
        /\ Contains(dl[t].line, DownloadMarker) /\ Contains(dl[t].line, MergeMarker)
        /\ Contains(dl[t].line, "%") /\ NumeralsBeforePercent(dl[t].line) = {}
        /\ afterQ = << >>
        /\ status_var = <<"Downloading", 7>>

\* ---------------------------------------------------- claims on the threads
\* A step of a background thread that is under way.
BackgroundStep ==
    \/ \E f \in FetchIds : fetch[f].pc \notin {"idle", "done"} /\ fetch'[f] # fetch[f]
    \/ \E t \in DlIds : dl[t].pc \notin {"free", "dead"} /\ dl'[t] # dl[t]

TopDialog == dialogs[Len(dialogs)].text

\* A request made while a download thread is alive starts no thread, shows one
\* of texts and leaves the download, the pending callbacks and the display as
\* they are.
RejectedUntouched(texts) ==
    (Running # {} /\ DownloadVideo) =>
        /\ dialogs' # dialogs
        /\ TopDialog' \in texts
        /\ UNCHANGED <<dl, download_thread, afterQ, progress_var, status_var,
                       btn_state, formats_data, quality_var, url_var>>

\* C2 as claimed: at most one download thread is alive at any time, and every
\* download request made while one is alive is rejected with 'Download already
\* in progress!' and changes nothing.
C2_AsClaimed ==
    /\ [](Cardinality(Running) <= 1)
    /\ [][RejectedUntouched({AlreadyInProgress})]_vars

\* C2 amended: at most one download is active at any time; a request made while
\* the download thread is alive is rejected, with 'Download already in
\* progress!' if a quality is selected and the URL field is not empty and with
\* the warning about the missing input otherwise, and changes nothing.
C2_OneDownload ==
    /\ [](Cardinality(Running) <= 1)
    /\ [][RejectedUntouched({AlreadyInProgress,
                             "Please select a quality and enter URL!"})]_vars
    /\ [][(Running # {} /\ DownloadVideo /\ quality_var # "" /\ url_var # << >>)
            => TopDialog' = AlreadyInProgress]_vars

\* C2 witness: the process runs, its callbacks have been served, a fetch that
\* completed meanwhile has re-enabled the button, and a request was rejected.
C2_Witness ==
    /\ \E t \in DlIds : dl[t].pc = "loop" /\ dl[t].nread = MaxLines
    /\ afterQ = << >>
    /\ btn_state = "normal"
    /\ dialogs # << >> /\ TopDialog = AlreadyInProgress

\* C8: no step of a fetch or download thread changes the status text, the
\* progress value, the quality menu or the download button; they change only
\* in callbacks served by the main loop.
C8_MainLoopOnly ==
    [][BackgroundStep =>
         UNCHANGED <<status_var, progress_var, combo_values, quality_var, btn_state>>]_vars

\* C9: once a download thread has ended, however it ended, the download button
\* is in the end enabled with no download thread alive, and a request made
\* then with a quality and a URL starts a download; and with the status of a
\* failed fetch on display the fetch handler still starts a fetch thread.
C9_UsableAfterFailure ==
    /\ (\E t \in DlIds : dl[t].pc = "dead") ~> (btn_state = "normal" /\ Running = {})
    /\ [][(DownloadVideo /\ Running = {} /\ quality_var # "" /\ url_var # << >>)
            => (download_thread' \in Running' /\ download_thread' # download_thread)]_vars
    /\ [][(FetchQualities /\ ValidUrl(Strip(url_var))
           /\ status_var[1] \in {"Error fetching qualities", "Error parsing data",
                                 "Error occurred"})
            => \E f \in FetchIds : fetch[f].pc = "idle" /\ fetch'[f].pc = "start"]_vars

\* C9 witness: a download that failed has ended, and the next request was accepted.
C9_Witness ==
    /\ dl[1].pc = "dead"
    /\ dl[2].pc = "begin"
    /\ status_var[1] \in {"Download failed", "Download error"}

\* C10: whatever a fetch does in between, the selector a download thread builds
\* for the label that was selected when its request was accepted is the one
\* formats_data bound to that label at that moment, and building it does not fail.
C10_SelectorSnapshot ==
    \A t \in DlIds :
        (dl[t].pc \in {"loop", "except"} /\ Len(dl[t].accepted) = 2
         /\ dl[t].quality = dl[t].accepted[1])
        => dl[t].format_selector = dl[t].accepted[2]

\* ------------------------------------------------ claims on the menu's keys
\* Nothing is under way: no fetch thread, no download thread, no callback
\* waiting and no messagebox open.
Quiescent ==
    /\ \A f \in FetchIds : fetch[f].pc \in {"idle", "done"}
    /\ Running = {}
    /\ afterQ = << >>
    /\ dialogs = << >>

\* C11: once the fetches and their menu updates are over, whenever a download
\* request would be accepted (the button is enabled, a quality label is
\* selected and the URL field is not empty), the selected label is a key of
\* formats_data, so the lookup of line 330 finds it.
C11_SelectedIsKey ==
    (Quiescent /\ btn_state = "normal" /\ quality_var # "" /\ url_var # << >>)
        => Has(formats_data, quality_var)

====
